---- MODULE Spec2Model ----
(***************************************************************************)
(* Synchronization facade of the second-brain note application:            *)
(* DataService (src/src/services/dataService.ts, first revision, lines     *)
(* 1-534) on top of the local store (src/src/utils/storage.ts), the        *)
(* remote store adapter FirestoreService and the calendar adapter          *)
(* (src/unnamed/part_010), with the session start of DataMigration         *)
(* (src/src/utils/dataMigration.ts) and the in-process listeners.          *)
(*                                                                         *)
(* Every facade call is an async function on a cooperative event loop: the *)
(* code between two awaits runs atomically.  A call is modelled as a task  *)
(* whose pc names the await it is suspended at; one action models the      *)
(* synchronous prefix of the call, one action each continuation.           *)
(***************************************************************************)
EXTENDS Integers, Sequences, FiniteSets, TLC

(***************************************************************************)
(* Bounds of the model.                                                    *)
(***************************************************************************)
MaxId == 2          \* ids handed out by crypto.randomUUID()
MaxTicks == 2       \* clock advances
MaxEvent == 2       \* calendar events the calendar service accepts
MaxDoc == 3         \* documents addDoc creates with an id of its own

(***************************************************************************)
(* Program constants.                                                      *)
(***************************************************************************)
RetentionMs == 300000                 \* cleanupOldDeletedItems default maxAge
TickMs == (2 * RetentionMs) \div 3    \* granularity of the modelled clock

Kinds == {"thought", "todo", "radiology", "investment"}
NoDate == 0                           \* dueDate: undefined
NoRef == 0                            \* googleEventId: undefined or ''
\* Facade calls in flight: the pages do not await updateTodo, and an undo
\* button can be pressed while an earlier press is still awaiting.  Only
\* the race specifications start calls on the second slot.
Slots == {"t1", "t2"}

\* Raw texts a caller passes to add; texts an edit passes to update.
AddInputs == { <<" ", "a", " ">> }
EditInputs == { <<"c">> }
DueDates == {1}
RadTags == <<"#rad">>

(***************************************************************************)
(* String.prototype.trim on a text given as a sequence of characters.      *)
(***************************************************************************)
Whitespace == {" "}

RECURSIVE TrimStart(_)
TrimStart(s) ==
  IF s # <<>> /\ Head(s) \in Whitespace THEN TrimStart(Tail(s)) ELSE s

RECURSIVE TrimEnd(_)
TrimEnd(s) ==
  IF s # <<>> /\ s[Len(s)] \in Whitespace
    THEN TrimEnd(SubSeq(s, 1, Len(s) - 1))
    ELSE s

Trim(s) == TrimEnd(TrimStart(s))

VARIABLES
  local,            \* localStorage: kind -> JSON list of records
  remote,           \* Firestore: kind -> set of documents (one per id)
  firestoreService, \* DataService.firestoreService # null
  isOnline,         \* DataService.isOnline
  isGoogleSignedIn, \* googleCalendar.isGoogleSignedIn
  deletedItems,     \* DataService.deletedItems: id -> tombstone
  undoFns,          \* undo closures handed to callers: <<id, type>>
  events,           \* live events of the external calendar
  nextEvent,        \* next event id the calendar hands out
  nextId,           \* next id crypto.randomUUID() hands out
  now,              \* Date.now()
  tasks,            \* slot -> facade call in flight (or its outcome)
  snap,             \* history: id -> record as listed when last soft-deleted
  migrated,         \* localStorage: migration-completed-<uid> = 'true'
  stored,           \* localStorage: kind -> shape of the persisted text
  lastRun,          \* history: how the last migration run ended
  nextDoc,          \* next document id addDoc hands out
  listeners         \* xListeners: kind -> <<>> or <<last snapshot delivered>>

vars == <<local, remote, firestoreService, isOnline, isGoogleSignedIn,
          deletedItems, undoFns, events, nextEvent, nextId, now, tasks, snap,
          migrated, lastRun, nextDoc, listeners, stored>>

(***************************************************************************)
(* Local store (storage.ts).  Records are persisted as JSON: a Date is     *)
(* written as an ISO string and revived with new Date(...) on read.        *)
(***************************************************************************)
DateToJSON(d) == <<"iso", d>>
DateFromJSON(s) == s[2]
Omitted == <<>>                       \* a key JSON.stringify leaves out

ToJSON(K, r) ==
  IF K = "todo"
    THEN [r EXCEPT !.createdAt = DateToJSON(r.createdAt),
                   !.dueDate = IF r.dueDate = NoDate THEN Omitted
                               ELSE DateToJSON(r.dueDate)]
    ELSE [r EXCEPT !.createdAt = DateToJSON(r.createdAt)]

FromJSON(K, j) ==
  IF K = "todo"
    THEN [j EXCEPT !.createdAt = DateFromJSON(j.createdAt),
                   !.dueDate = IF j.dueDate # Omitted
                                 THEN DateFromJSON(j.dueDate)
                                 ELSE NoDate]
    ELSE [j EXCEPT !.createdAt = DateFromJSON(j.createdAt)]

\* storage.getThoughts / getTodos / getRadiologyNotes / getInvestments
storageGet(loc, K) == [i \in DOMAIN loc[K] |-> FromJSON(K, loc[K][i])]

\* storage.saveThoughts / saveTodos / ...
storageSave(loc, K, list) ==
  [loc EXCEPT ![K] = [i \in DOMAIN list |-> ToJSON(K, list[i])]]

\* storage.addThought / addTodo / ...: unshift, then save
storageAdd(loc, K, r) == storageSave(loc, K, <<r>> \o storageGet(loc, K))

Without(list, id) == SelectSeq(list, LAMBDA r : r.id # id)

\* a delete that leaves the list as it was
storageDeleteKept(loc, K, id) == loc

\* storage.deleteThought / deleteTodo / ...: filter, then save
storageDelete(loc, K, id) == storageSave(loc, K, Without(storageGet(loc, K), id))

\* { ...record, ...updates }
Merge(r, upd) ==
  [f \in DOMAIN r \cup DOMAIN upd |-> IF f \in DOMAIN upd THEN upd[f] ELSE r[f]]

FirstIndex(list, id) ==
  IF \E i \in DOMAIN list : list[i].id = id
    THEN CHOOSE i \in DOMAIN list :
           /\ list[i].id = id
           /\ \A j \in DOMAIN list : list[j].id = id => i <= j
    ELSE 0

\* an update that is lost
storageUpdateLost(loc, K, id, upd) == loc

\* storage.updateTodo: findIndex, spread the updates over the record, save
storageUpdate(loc, K, id, upd) ==
  LET list == storageGet(loc, K)
      i == FirstIndex(list, id)
  IN IF i = 0 THEN loc
     ELSE storageSave(loc, K, [list EXCEPT ![i] = Merge(list[i], upd)])

NoRecord == [id |-> 0]               \* undefined / null

\* storage.getX().find(r => r.id === id)
Find(list, id) ==
  LET i == FirstIndex(list, id) IN IF i = 0 THEN NoRecord ELSE list[i]

Range(s) == { s[i] : i \in DOMAIN s }
Ids(list) == { list[i].id : i \in DOMAIN list }

(***************************************************************************)
(* Remote store adapter (FirestoreService).  A document is keyed by the    *)
(* record id; setDoc replaces it, createdAt is the server timestamp.       *)
(***************************************************************************)
DocIds(rem, K) == { d.id : d \in rem[K] }

\* FirestoreService.addThought / addTodo / addRadiologyNote / addInvestment
fsAdd(rem, K, r, serverTs) ==
  [rem EXCEPT ![K] = { d \in rem[K] : d.id # r.id }
                       \cup { [r EXCEPT !.createdAt = serverTs] }]

\* FirestoreService.deleteThought / deleteTodo / ...
fsDelete(rem, K, id) == [rem EXCEPT ![K] = { d \in rem[K] : d.id # id }]

\* FirestoreService.getTodoById: the document, or null
fsGetTodoById(rem, id) ==
  IF id \in DocIds(rem, "todo")
    THEN CHOOSE d \in rem["todo"] : d.id = id
    ELSE NoRecord

\* updateData of FirestoreService.updateTodo: an undefined dueDate is dropped
UpdateData(upd) ==
  IF "dueDate" \in DOMAIN upd /\ upd.dueDate = NoDate
    THEN [f \in DOMAIN upd \ {"dueDate"} |-> upd[f]]
    ELSE upd

\* FirestoreService.updateTodo: updateDoc of an existing document
fsUpdateTodo(rem, id, upd) ==
  [rem EXCEPT !["todo"] =
     { IF d.id = id THEN Merge(d, UpdateData(upd)) ELSE d : d \in rem["todo"] }]

RECURSIVE SortDesc(_)
SortDesc(S) ==
  IF S = {} THEN <<>>
  ELSE LET m == CHOOSE d \in S : \A e \in S : e.createdAt <= d.createdAt
       IN <<m>> \o SortDesc(S \ {m})

\* FirestoreService.getThoughts / getTodos / ...: orderBy('createdAt', 'desc')
fsGet(rem, K) == SortDesc(rem[K])

(***************************************************************************)
(* Facade calls in flight.                                                 *)
(*   op     the facade operation: add, update, delete, softDelete, undo,   *)
(*          convert                                                        *)
(*   pc     idle, the await the call is suspended at, or done              *)
(*   out    none | returned | threw: how the promise settled               *)
(*   hung   the awaited call never settles                                 *)
(*   trace  the effects in the order the call issued them                  *)
(*   rfail / cfail   a remote store / calendar call of this call failed    *)
(*   arg    the updates object as the caller passed it                     *)
(*   upd    the updates object as the call has mutated it                  *)
(*   stale  the tombstone an undo closure found was older than the         *)
(*          retention window                                               *)
(*   prior  the ids known before the call                                  *)
(*   flag   isMigrationCompleted() as needsMigration read it               *)
(*   needed what needsMigration returned: none (not yet), yes, no          *)
(*   queue  the local records of the kind being migrated, the one being    *)
(*          pushed first                                                   *)
(*   sent   migrationCounts: the records pushed so far                     *)
(*   pulled syncFirebaseToLocal has overwritten the local collections      *)
(***************************************************************************)
NoUpdate == [none |-> 0]

IdleTask ==
  [op |-> "none", pc |-> "idle", out |-> "none", hung |-> FALSE,
   kind |-> "thought", src |-> "thought", id |-> 0, text |-> <<>>,
   due |-> NoDate, arg |-> NoUpdate, upd |-> NoUpdate, rec |-> NoRecord,
   cur |-> NoRecord, cal |-> "none", ev |-> NoRef, trace |-> <<>>,
   rfail |-> FALSE, cfail |-> FALSE, stale |-> FALSE, prior |-> {},
   flag |-> FALSE, needed |-> "none", queue |-> <<>>, sent |-> 0,
   pulled |-> FALSE]

Awaits == {"add.remote", "add.event", "add.patch", "upd.get", "upd.cal",
           "upd.remote", "updx.remote", "del.remote", "sdel.remote",
           "undo.remote", "conv.del", "init.check", "init.push",
           "init.patch", "init.pull"}

Main == "t1"

\* a call that mirrors before it writes locally
RemoteFirst == <<"remoteWrite", "local", "notify">>

\* every mutating call starts with storage.xxx(...) and notifyXListeners()
LocalFirst == <<"local", "notify">>

\* the next call is made once the previous one has settled
Free(t) == tasks[t].pc \in {"idle", "done"}
Suspended(t, label) == tasks[t].pc = label /\ ~tasks[t].hung

\* every id some store, tombstone or call knows
KnownIds ==
  UNION { Ids(storageGet(local, K)) \cup DocIds(remote, K) : K \in Kinds }
    \cup DOMAIN deletedItems

\* the promise of the call settles; its locals are gone
Settled(task, out) ==
  [task EXCEPT !.pc = "done", !.out = out, !.due = NoDate, !.upd = NoUpdate,
               !.cal = "none", !.ev = NoRef, !.queue = <<>>]

Returned(task) == Settled(task, "returned")
Threw(task) == Settled([task EXCEPT !.rfail = TRUE], "threw")

\* the history keeps a record while its tombstone is pending and until the
\* call after its undo
Forget(h) == [id \in DOMAIN h \cap DOMAIN deletedItems |-> h[id]]

Put(f, k, v) == [x \in DOMAIN f \cup {k} |-> IF x = k THEN v ELSE f[x]]
Drop(f, k) == [x \in DOMAIN f \ {k} |-> f[x]]

Init ==
  /\ local = [K \in Kinds |-> <<>>]
  /\ remote = [K \in Kinds |-> {}]
  /\ firestoreService \in BOOLEAN
  /\ isOnline \in BOOLEAN
  /\ isGoogleSignedIn = FALSE
  /\ deletedItems = <<>>
  /\ undoFns = {}
  /\ events = {}
  /\ nextEvent = 1
  /\ nextId = 1
  /\ now = 0
  /\ tasks = [t \in Slots |-> IdleTask]
  /\ snap = <<>>
  /\ migrated = firestoreService
  /\ lastRun = "none"
  /\ nextDoc = 1
  /\ listeners = [K \in Kinds |-> <<>>]
  /\ stored = [K \in Kinds |-> "list"]

(***************************************************************************)
(* In-process listeners (local storage mode).  A registered callback keeps *)
(* the snapshot it was last invoked with.                                  *)
(***************************************************************************)
\* notifyThoughtsListeners / notifyTodosListeners / ...: every listener of
\* the kinds Ks is invoked with storage.getX()
Notify(ls, loc, Ks) ==
  [K \in Kinds |-> IF K \in Ks /\ ls[K] # <<>> THEN <<storageGet(loc, K)>>
                                                ELSE ls[K]]

(***************************************************************************)
(* Facade reads                                                            *)
(***************************************************************************)
\* getThoughts / getTodos / getRadiologyNotes / getInvestments: the remote
\* collection when there is a remote session, the local one otherwise
getList(K) == IF firestoreService THEN fsGet(remote, K) ELSE storageGet(local, K)

(***************************************************************************)
(* add                                                                     *)
(***************************************************************************)
\* an id generator that hands out the previous id again
ReusedId == IF nextId > 1 THEN nextId - 1 ELSE nextId

\* crypto.randomUUID()
NewId == nextId

\* newThought / newTodo / newNote / newInvestment
NewRecord(K, text, due, tags) ==
  IF K = "todo"
    THEN [id |-> NewId, content |-> Trim(text), isCompleted |-> FALSE,
          priority |-> "medium", createdAt |-> now, dueDate |-> due,
          googleEventId |-> NoRef]
    ELSE [id |-> NewId, content |-> Trim(text), createdAt |-> now, tags |-> tags]

\* The synchronous prefix of addThought / addTodo / addRadiologyNote /
\* addInvestment, run by the call `base` on the local store `loc`.
AddPrefix(t, base, loc, K, text, due, tags) ==
  LET r == NewRecord(K, text, due, tags)
      mirror == firestoreService /\ isOnline
      b == [base EXCEPT !.kind = K, !.rec = r, !.due = due,
                        !.text = text,
                        !.trace = base.trace \o LocalFirst
                                    \o (IF mirror THEN <<"remoteWrite">> ELSE <<>>)]
  IN /\ local' = storageAdd(loc, K, r)
     /\ nextId' = nextId + 1
     /\ tasks' = [tasks EXCEPT ![t] =
                    IF mirror THEN [b EXCEPT !.pc = "add.remote"] ELSE Returned(b)]

Add(t, K, text, due, tags) ==
  /\ Free(t)
  /\ nextId <= MaxId
  /\ AddPrefix(t, [IdleTask EXCEPT !.op = "add", !.id = NewId,
                                    !.prior = KnownIds],
               local, K, text, due, tags)
  /\ listeners' = Notify(listeners, local', {K})
  /\ snap' = Forget(snap)
  /\ UNCHANGED <<remote, firestoreService, isOnline, isGoogleSignedIn,
                 deletedItems, undoFns, events, nextEvent, now, stored>>
  /\ UNCHANGED <<migrated, lastRun, nextDoc>>

addThought(t, text) == Add(t, "thought", text, NoDate, <<>>)
addTodo(t, text, due) == Add(t, "todo", text, due, <<>>)
addRadiologyNote(t, text, tags) == Add(t, "radiology", text, NoDate, tags)
addInvestment(t, text) == Add(t, "investment", text, NoDate, <<>>)

\* `await this.firestoreService.addX(newX)` settles (addX, and the add that
\* ends convertToX).  A rejection is caught and logged.
AddRemoteSettled(t) ==
  /\ Suspended(t, "add.remote")
  /\ \E ok \in BOOLEAN :
       LET task == tasks[t]
           event == /\ ok /\ task.op = "add" /\ task.kind = "todo"
                    /\ isGoogleSignedIn /\ task.due # NoDate
       IN /\ remote' = IF ok THEN fsAdd(remote, task.kind, task.rec, now)
                              ELSE remote
          /\ tasks' = [tasks EXCEPT ![t] =
               IF event
                 THEN [task EXCEPT !.pc = "add.event", !.cal = "create",
                                   !.trace = task.trace \o <<"calendar">>]
               ELSE IF ok
                 THEN Returned(task)
                 ELSE Returned([task EXCEPT !.rfail = TRUE])]
  /\ UNCHANGED <<local, firestoreService, isOnline, isGoogleSignedIn,
                 deletedItems, undoFns, events, nextEvent, nextId, now, stored, snap>>
  /\ UNCHANGED <<migrated, lastRun, nextDoc, listeners>>

\* `await createEvent(content, dueDate)` of addTodo settles; on success
\* updateTodo(newTodo.id, { googleEventId }) runs up to its remote write.
AddEventSettled(t) ==
  /\ Suspended(t, "add.event")
  /\ \E ok \in BOOLEAN :
       LET task == tasks[t]
           upd == [googleEventId |-> nextEvent]
       IN /\ ok => nextEvent <= MaxEvent
          /\ IF ok
               THEN /\ events' = events \cup {nextEvent}
                    /\ nextEvent' = nextEvent + 1
                    /\ local' = storageUpdate(local, "todo", task.id, upd)
                    /\ listeners' = Notify(listeners, local', {"todo"})
                    /\ tasks' = [tasks EXCEPT ![t] =
                         [task EXCEPT !.pc = "add.patch", !.upd = upd,
                                      !.ev = nextEvent, !.cal = "none",
                                      !.trace = task.trace \o LocalFirst
                                                  \o <<"remoteWrite">>]]
               ELSE /\ tasks' = [tasks EXCEPT ![t] =
                         Returned([task EXCEPT !.cfail = TRUE, !.cal = "none"])]
                    /\ UNCHANGED <<events, nextEvent, local, listeners>>
  /\ UNCHANGED <<remote, firestoreService, isOnline, isGoogleSignedIn,
                 deletedItems, undoFns, nextId, now, stored, snap>>
  /\ UNCHANGED <<migrated, lastRun, nextDoc>>

\* `await this.firestoreService.updateTodo(id, updates)` of that nested
\* updateTodo settles; its rejection is caught by addTodo.
AddPatchSettled(t) ==
  /\ Suspended(t, "add.patch")
  /\ \E ok \in BOOLEAN :
       LET task == tasks[t]
       IN /\ ok => task.id \in DocIds(remote, "todo")
          /\ remote' = IF ok THEN fsUpdateTodo(remote, task.id, task.upd)
                              ELSE remote
          /\ tasks' = [tasks EXCEPT ![t] =
               IF ok THEN Returned(task)
                     ELSE Returned([task EXCEPT !.rfail = TRUE])]
  /\ UNCHANGED <<local, firestoreService, isOnline, isGoogleSignedIn,
                 deletedItems, undoFns, events, nextEvent, nextId, now, stored, snap>>
  /\ UNCHANGED <<migrated, lastRun, nextDoc, listeners>>

(***************************************************************************)
(* update                                                                  *)
(***************************************************************************)
\* updates a caller passes to updateTodo: the completion toggle and the
\* priority menu; the due date picker (a date, or undefined to clear it)
FlagUpdates == { [isCompleted |-> TRUE, priority |-> "high"] }
DueUpdates == { [dueDate |-> d] : d \in DueDates \cup {NoDate} }

NoteUpdates == { [content |-> c] : c \in EditInputs }

\* ids a caller can name for kind K: those of the records it is shown
Shown(K) == Ids(storageGet(local, K)) \cup DocIds(remote, K)

\* updateTodo up to its first await
updateTodo(t, id, upd) ==
  /\ Free(t)
  /\ LET calendar == isGoogleSignedIn /\ "dueDate" \in DOMAIN upd
         b == [IdleTask EXCEPT !.op = "update", !.kind = "todo", !.id = id,
                               !.arg = upd, !.upd = upd]
     IN /\ local' = storageUpdate(local, "todo", id, upd)
        /\ listeners' = Notify(listeners, local', {"todo"})
        /\ tasks' = [tasks EXCEPT ![t] =
             IF ~firestoreService
               THEN Returned([b EXCEPT !.trace = LocalFirst])
             ELSE IF calendar
               THEN [b EXCEPT !.pc = "upd.get",
                              !.trace = LocalFirst \o <<"remoteRead">>]
               ELSE [b EXCEPT !.pc = "upd.remote",
                              !.trace = LocalFirst \o <<"remoteWrite">>]]
  /\ snap' = Forget(snap)
  /\ UNCHANGED <<remote, firestoreService, isOnline, isGoogleSignedIn,
                 deletedItems, undoFns, events, nextEvent, nextId, now, stored>>
  /\ UNCHANGED <<migrated, lastRun, nextDoc>>

\* a branch that creates an event whenever a due date is set
CalendarBranchBlind(newDueDate, googleEventId) ==
  IF newDueDate # NoDate THEN "create"
  ELSE IF googleEventId # NoRef THEN "delete"
  ELSE "none"

\* the three-way calendar branch of updateTodo
CalendarBranch(newDueDate, googleEventId) ==
  IF newDueDate # NoDate /\ googleEventId = NoRef THEN "create"
  ELSE IF newDueDate # NoDate /\ googleEventId # NoRef THEN "update"
  ELSE IF newDueDate = NoDate /\ googleEventId # NoRef THEN "delete"
  ELSE "none"

\* `await this.firestoreService.getTodoById(id)` settles; a rejection is
\* not caught.
UpdateGetSettled(t) ==
  /\ Suspended(t, "upd.get")
  /\ \E ok \in BOOLEAN :
       LET task == tasks[t]
           currentTodo == fsGetTodoById(remote, task.id)
           branch == IF currentTodo = NoRecord THEN "none"
                     ELSE CalendarBranch(task.upd.dueDate,
                                         currentTodo.googleEventId)
       IN tasks' = [tasks EXCEPT ![t] =
            IF ~ok THEN Threw(task)
            ELSE IF branch = "none"
              THEN [task EXCEPT !.pc = "upd.remote", !.cur = currentTodo,
                                !.trace = task.trace \o <<"remoteWrite">>]
              ELSE [task EXCEPT !.pc = "upd.cal", !.cur = currentTodo,
                                !.cal = branch,
                                !.ev = currentTodo.googleEventId,
                                !.trace = task.trace \o <<"calendar">>]]
  /\ UNCHANGED <<local, remote, firestoreService, isOnline, isGoogleSignedIn,
                 deletedItems, undoFns, events, nextEvent, nextId, now, stored, snap>>
  /\ UNCHANGED <<migrated, lastRun, nextDoc, listeners>>

\* createEvent / updateEvent / deleteEvent of updateTodo settles; a
\* rejection is caught and logged; then the remote write is issued.
UpdateCalendarSettled(t) ==
  /\ Suspended(t, "upd.cal")
  /\ \E ok \in BOOLEAN :
       LET task == tasks[t]
           next == [task EXCEPT !.pc = "upd.remote",
                                !.trace = task.trace \o <<"remoteWrite">>]
       IN /\ ok => IF task.cal = "create" THEN nextEvent <= MaxEvent
                                           ELSE task.ev \in events
          /\ events' = IF ~ok THEN events
                        ELSE IF task.cal = "create" THEN events \cup {nextEvent}
                        ELSE IF task.cal = "delete" THEN events \ {task.ev}
                        ELSE events
          /\ nextEvent' = IF ok /\ task.cal = "create" THEN nextEvent + 1
                           ELSE nextEvent
          /\ tasks' = [tasks EXCEPT ![t] =
               IF ~ok THEN [next EXCEPT !.cfail = TRUE]
               ELSE IF task.cal = "create"
                 THEN [next EXCEPT !.ev = nextEvent,
                         !.upd = Merge(task.upd, [googleEventId |-> nextEvent])]
               ELSE IF task.cal = "delete"
                 THEN [next EXCEPT
                         !.upd = Merge(task.upd, [googleEventId |-> NoRef])]
               ELSE next]
  /\ UNCHANGED <<local, remote, firestoreService, isOnline, isGoogleSignedIn,
                 deletedItems, undoFns, nextId, now, stored, snap>>
  /\ UNCHANGED <<migrated, lastRun, nextDoc, listeners>>

\* `await this.firestoreService.updateTodo(id, updates)` settles; a
\* rejection is not caught.
UpdateRemoteSettled(t) ==
  /\ Suspended(t, "upd.remote")
  /\ \E ok \in BOOLEAN :
       LET task == tasks[t]
       IN /\ ok => task.id \in DocIds(remote, "todo")
          /\ remote' = IF ok THEN fsUpdateTodo(remote, task.id, task.upd)
                              ELSE remote
          /\ tasks' = [tasks EXCEPT ![t] =
               IF ok THEN Returned(task)
                     ELSE Threw(task)]
  /\ UNCHANGED <<local, firestoreService, isOnline, isGoogleSignedIn,
                 deletedItems, undoFns, events, nextEvent, nextId, now, stored, snap>>
  /\ UNCHANGED <<migrated, lastRun, nextDoc, listeners>>

\* storage.updateThought / updateRadiologyNote / updateInvestment
storageUpdateNote(loc, K, id, upd) == storageUpdate(loc, K, id, upd)

\* FirestoreService.updateThought / updateRadiologyNote / updateInvestment
fsUpdateNote(rem, K, id, upd) ==
  [rem EXCEPT ![K] = { IF d.id = id THEN Merge(d, upd) ELSE d : d \in rem[K] }]

\* updateThought / updateRadiologyNote / updateInvestment up to the await
UpdateNote(t, K, id, upd) ==
  /\ Free(t)
  /\ LET mirror == firestoreService /\ isOnline
         b == [IdleTask EXCEPT !.op = "update", !.kind = K, !.id = id,
                               !.arg = upd, !.upd = upd]
     IN /\ local' = storageUpdateNote(local, K, id, upd)
        /\ listeners' = Notify(listeners, local', {K})
        /\ tasks' = [tasks EXCEPT ![t] =
             IF mirror
               THEN [b EXCEPT !.pc = "updx.remote",
                              !.trace = LocalFirst \o <<"remoteWrite">>]
               ELSE Returned([b EXCEPT !.trace = LocalFirst])]
  /\ snap' = Forget(snap)
  /\ UNCHANGED <<remote, firestoreService, isOnline, isGoogleSignedIn,
                 deletedItems, undoFns, events, nextEvent, nextId, now, stored>>
  /\ UNCHANGED <<migrated, lastRun, nextDoc>>

updateThought(t, id, upd) == UpdateNote(t, "thought", id, upd)
updateRadiologyNote(t, id, upd) == UpdateNote(t, "radiology", id, upd)
updateInvestment(t, id, upd) == UpdateNote(t, "investment", id, upd)

\* `await this.firestoreService.updateX(id, updates)` settles; a rejection
\* is caught and logged.
UpdateNoteRemoteSettled(t) ==
  /\ Suspended(t, "updx.remote")
  /\ \E ok \in BOOLEAN :
       LET task == tasks[t]
       IN /\ ok => task.id \in DocIds(remote, task.kind)
          /\ remote' = IF ok
                          THEN fsUpdateNote(remote, task.kind, task.id, task.upd)
                          ELSE remote
          /\ tasks' = [tasks EXCEPT ![t] =
               IF ok THEN Returned(task)
                     ELSE Returned([task EXCEPT !.rfail = TRUE])]
  /\ UNCHANGED <<local, firestoreService, isOnline, isGoogleSignedIn,
                 deletedItems, undoFns, events, nextEvent, nextId, now, stored, snap>>
  /\ UNCHANGED <<migrated, lastRun, nextDoc, listeners>>

(***************************************************************************)
(* delete                                                                  *)
(***************************************************************************)
\* deleteThought / deleteTodo / deleteRadiologyNote / deleteInvestment up to
\* the await, run by the call `base`; `after` is the call once the delete
\* has returned without awaiting (no remote session).
DeletePrefix(t, base, K, id, label, after) ==
  LET b == [base EXCEPT !.trace = base.trace \o LocalFirst]
  IN /\ local' = storageDelete(local, K, id)
     /\ tasks' = [tasks EXCEPT ![t] =
          IF firestoreService
            THEN [b EXCEPT !.pc = label,
                           !.trace = b.trace \o <<"remoteWrite">>]
            ELSE [after EXCEPT !.trace = b.trace]]

Delete(t, K, id) ==
  /\ Free(t)
  /\ LET b == [IdleTask EXCEPT !.op = "delete", !.kind = K, !.id = id]
     IN DeletePrefix(t, b, K, id, "del.remote", Returned(b))
  /\ listeners' = Notify(listeners, local', {K})
  /\ snap' = Forget(snap)
  /\ UNCHANGED <<remote, firestoreService, isOnline, isGoogleSignedIn,
                 deletedItems, undoFns, events, nextEvent, nextId, now, stored>>
  /\ UNCHANGED <<migrated, lastRun, nextDoc>>

deleteThought(t, id) == Delete(t, "thought", id)
deleteTodo(t, id) == Delete(t, "todo", id)
deleteRadiologyNote(t, id) == Delete(t, "radiology", id)
deleteInvestment(t, id) == Delete(t, "investment", id)

\* `await this.firestoreService.deleteX(id)` settles; a rejection is not
\* caught.
DeleteRemoteSettled(t) ==
  /\ Suspended(t, "del.remote")
  /\ \E ok \in BOOLEAN :
       LET task == tasks[t]
       IN /\ remote' = IF ok THEN fsDelete(remote, task.kind, task.id)
                              ELSE remote
          /\ tasks' = [tasks EXCEPT ![t] =
               IF ok THEN Returned(task)
                     ELSE Threw(task)]
  /\ UNCHANGED <<local, firestoreService, isOnline, isGoogleSignedIn,
                 deletedItems, undoFns, events, nextEvent, nextId, now, stored, snap>>
  /\ UNCHANGED <<migrated, lastRun, nextDoc, listeners>>

(***************************************************************************)
(* softDelete and the undo closure                                         *)
(***************************************************************************)
\* softDeleteThought / softDeleteTodo / softDeleteRadiologyNote /
\* softDeleteInvestment up to the await of deleteX
SoftDelete(t, K, id) ==
  /\ Free(t)
  /\ LET found == Find(storageGet(local, K), id)
         b == [IdleTask EXCEPT !.op = "softDelete", !.kind = K, !.id = id,
                               !.rec = found]
     IN IF found = NoRecord
          THEN /\ tasks' = [tasks EXCEPT ![t] =
                    Settled(b, "threw")]
               /\ snap' = Forget(snap)
               /\ UNCHANGED <<local, deletedItems, undoFns, listeners>>
          ELSE /\ deletedItems' =
                    Put(deletedItems, id,
                        [type |-> K, data |-> found, timestamp |-> now])
               /\ snap' = Put(Forget(snap), id, Find(getList(K), id))
               /\ DeletePrefix(t, b, K, id, "sdel.remote", Returned(b))
               /\ listeners' = Notify(listeners, local', {K})
               /\ undoFns' = IF firestoreService THEN undoFns
                                                 ELSE undoFns \cup {<<id, K>>}
  /\ UNCHANGED <<remote, firestoreService, isOnline, isGoogleSignedIn,
                 events, nextEvent, nextId, now, stored>>
  /\ UNCHANGED <<migrated, lastRun, nextDoc>>

softDeleteThought(t, id) == SoftDelete(t, "thought", id)
softDeleteTodo(t, id) == SoftDelete(t, "todo", id)
softDeleteRadiologyNote(t, id) == SoftDelete(t, "radiology", id)
softDeleteInvestment(t, id) == SoftDelete(t, "investment", id)

\* `await this.deleteX(id)` of softDeleteX settles: the undo closure is
\* returned, or the rejection of deleteX propagates.
SoftDeleteRemoteSettled(t) ==
  /\ Suspended(t, "sdel.remote")
  /\ \E ok \in BOOLEAN :
       LET task == tasks[t]
       IN /\ remote' = IF ok THEN fsDelete(remote, task.kind, task.id)
                              ELSE remote
          /\ undoFns' = IF ok THEN undoFns \cup {<<task.id, task.kind>>}
                               ELSE undoFns
          /\ tasks' = [tasks EXCEPT ![t] =
               IF ok THEN Returned(task)
                     ELSE Threw(task)]
  /\ UNCHANGED <<local, firestoreService, isOnline, isGoogleSignedIn,
                 deletedItems, events, nextEvent, nextId, now, stored, snap>>
  /\ UNCHANGED <<migrated, lastRun, nextDoc, listeners>>

\* The closure returned by softDeleteX(id), invoked, up to its await.  Only
\* the closure of softDeleteThought notifies the listeners.
Undo(t, K, id) ==
  /\ Free(t)
  /\ <<id, K>> \in undoFns
  /\ LET has == id \in DOMAIN deletedItems /\ deletedItems[id].type = K
         mirror == firestoreService /\ isOnline
         b == [IdleTask EXCEPT !.op = "undo", !.kind = K, !.id = id]
     IN IF ~has
          THEN /\ tasks' = [tasks EXCEPT ![t] = Returned(b)]
               /\ UNCHANGED <<local, deletedItems, listeners>>
          ELSE LET data == deletedItems[id].data
                   c == [b EXCEPT !.rec = data,
                           !.stale = now - deletedItems[id].timestamp
                                       > RetentionMs,
                           !.trace = IF K = "thought" THEN LocalFirst
                                                      ELSE <<"local">>]
               IN /\ local' = storageAdd(local, K, data)
                  /\ listeners' = IF K = "thought"
                                    THEN Notify(listeners, local', {K})
                                    ELSE listeners
                  /\ IF mirror
                       THEN /\ tasks' = [tasks EXCEPT ![t] =
                                 [c EXCEPT !.pc = "undo.remote",
                                    !.trace = c.trace \o <<"remoteWrite">>]]
                            /\ UNCHANGED deletedItems
                       ELSE /\ tasks' = [tasks EXCEPT ![t] = Returned(c)]
                            /\ deletedItems' = Drop(deletedItems, id)
  /\ UNCHANGED <<remote, firestoreService, isOnline, isGoogleSignedIn,
                 undoFns, events, nextEvent, nextId, now, stored, snap>>
  /\ UNCHANGED <<migrated, lastRun, nextDoc>>

undoThought(t, id) == Undo(t, "thought", id)
undoTodo(t, id) == Undo(t, "todo", id)
undoRadiologyNote(t, id) == Undo(t, "radiology", id)
undoInvestment(t, id) == Undo(t, "investment", id)

\* `await this.firestoreService.addX(deletedItem.data)` of the closure
\* settles (a rejection is caught); then the tombstone is removed.
UndoRemoteSettled(t) ==
  /\ Suspended(t, "undo.remote")
  /\ \E ok \in BOOLEAN :
       LET task == tasks[t]
       IN /\ remote' = IF ok THEN fsAdd(remote, task.kind, task.rec, now)
                              ELSE remote
          /\ deletedItems' = Drop(deletedItems, task.id)
          /\ tasks' = [tasks EXCEPT ![t] =
               IF ok THEN Returned(task)
                     ELSE Returned([task EXCEPT !.rfail = TRUE])]
  /\ UNCHANGED <<local, firestoreService, isOnline, isGoogleSignedIn,
                 undoFns, events, nextEvent, nextId, now, stored, snap>>
  /\ UNCHANGED <<migrated, lastRun, nextDoc, listeners>>

\* cleanupOldDeletedItems(maxAge)
cleanupOldDeletedItems(maxAge) ==
  /\ deletedItems' =
       [id \in { i \in DOMAIN deletedItems :
                   ~(now - deletedItems[i].timestamp > maxAge) }
          |-> deletedItems[id]]
  /\ UNCHANGED <<local, remote, firestoreService, isOnline, isGoogleSignedIn,
                 undoFns, events, nextEvent, nextId, now, stored, tasks, snap>>
  /\ UNCHANGED <<migrated, lastRun, nextDoc, listeners>>

(***************************************************************************)
(* convertTo                                                               *)
(***************************************************************************)
\* the tags convertToX passes to addX
ConvertTags(K) == IF K = "radiology" THEN RadTags ELSE <<>>

\* convertToThought / convertToTodo / convertToInvestment /
\* convertToRadiology(id, fromType) up to its first await
ConvertTo(t, K, id, fromType) ==
  /\ Free(t)
  /\ fromType # K
  /\ nextId <= MaxId
  /\ LET sourceData == Find(storageGet(local, fromType), id)
         b == [IdleTask EXCEPT !.op = "convert", !.kind = K, !.src = fromType,
                               !.id = id, !.cur = sourceData,
                               !.prior = Ids(storageGet(local, K))]
         c == [b EXCEPT !.trace = LocalFirst]
     IN IF sourceData = NoRecord
          THEN /\ tasks' = [tasks EXCEPT ![t] = Returned(b)]
               /\ UNCHANGED <<local, nextId, listeners>>
          ELSE IF firestoreService
            THEN /\ local' = storageDelete(local, fromType, id)
                 /\ listeners' = Notify(listeners, local', {fromType})
                 /\ tasks' = [tasks EXCEPT ![t] =
                      [c EXCEPT !.pc = "conv.del",
                                !.trace = c.trace \o <<"remoteWrite">>]]
                 /\ UNCHANGED nextId
            ELSE /\ AddPrefix(t, c, storageDelete(local, fromType, id), K,
                              sourceData.content, NoDate, ConvertTags(K))
                 /\ listeners' = Notify(listeners, local', {fromType, K})
  /\ snap' = Forget(snap)
  /\ UNCHANGED <<remote, firestoreService, isOnline, isGoogleSignedIn,
                 deletedItems, undoFns, events, nextEvent, now, stored>>
  /\ UNCHANGED <<migrated, lastRun, nextDoc>>

convertToThought(t, id, fromType) == ConvertTo(t, "thought", id, fromType)
convertToTodo(t, id, fromType) == ConvertTo(t, "todo", id, fromType)
convertToInvestment(t, id, fromType) == ConvertTo(t, "investment", id, fromType)
convertToRadiology(t, id, fromType) == ConvertTo(t, "radiology", id, fromType)

\* `await this.deleteX(id)` of convertToX settles: addX(sourceData.content)
\* runs up to its await, or the rejection of deleteX propagates.
ConvertDeleteSettled(t) ==
  /\ Suspended(t, "conv.del")
  /\ \E ok \in BOOLEAN :
       LET task == tasks[t]
       IN IF ok
            THEN /\ remote' = fsDelete(remote, task.src, task.id)
                 /\ AddPrefix(t, task, local, task.kind, task.cur.content,
                              NoDate, ConvertTags(task.kind))
                 /\ listeners' = Notify(listeners, local', {task.kind})
            ELSE /\ tasks' = [tasks EXCEPT ![t] = Threw(task)]
                 /\ UNCHANGED <<local, remote, nextId, listeners>>
  /\ UNCHANGED <<firestoreService, isOnline, isGoogleSignedIn,
                 deletedItems, undoFns, events, nextEvent, now, stored, snap>>
  /\ UNCHANGED <<migrated, lastRun, nextDoc>>

(***************************************************************************)
(* Session start: initializeWithUser, DataMigration (dataMigration.ts)     *)
(***************************************************************************)
\* the kinds needsMigration, migrateLocalDataToFirebase and
\* syncFirebaseToLocal go through, in the order of the push
MigratedKinds == <<"thought", "todo", "radiology">>

\* hasLocalData of needsMigration
hasLocalData(loc) ==
  \E i \in DOMAIN MigratedKinds : storageGet(loc, MigratedKinds[i]) # <<>>

\* hasFirebaseData of needsMigration
hasFirebaseData(rem) ==
  \E i \in DOMAIN MigratedKinds : fsGet(rem, MigratedKinds[i]) # <<>>

\* a completion that leaves the flag as it was
markMigrationSkipped(flag) == flag

\* markMigrationCompleted: localStorage.setItem(..., 'true')
markMigrationCompleted(flag) == TRUE

\* FirestoreService.addThought(content) / addTodo(content) /
\* addRadiologyNote(content, tags) as DataMigration calls them: addDoc
\* creates a document with an id of its own, createdAt is the server
\* timestamp
fsAddDoc(rem, K, r, docId, serverTs) ==
  LET d == IF K = "todo"
             THEN [id |-> docId, content |-> Trim(r.content),
                   isCompleted |-> FALSE, priority |-> "medium",
                   createdAt |-> serverTs, dueDate |-> NoDate,
                   googleEventId |-> NoRef]
           ELSE IF K = "thought"
             THEN [id |-> docId, content |-> Trim(r.content),
                   createdAt |-> serverTs, tags |-> <<>>]
             ELSE [id |-> docId, content |-> Trim(r.content),
                   createdAt |-> serverTs, tags |-> r.tags]
  IN [rem EXCEPT ![K] = rem[K] \cup {d}]

\* the condition under which the push of a task is followed by updateTodo
NeedsPatch(todo) ==
  todo.isCompleted # FALSE \/ todo.priority # "medium" \/ todo.dueDate # NoDate

\* the updates of that updateTodo
PatchOf(todo) ==
  [isCompleted |-> todo.isCompleted, priority |-> todo.priority,
   dueDate |-> todo.dueDate]

\* syncFirebaseToLocal: saveThoughts, saveTodos, saveRadiologyNotes
syncFirebaseToLocal(loc, rem) ==
  storageSave(
    storageSave(
      storageSave(loc, "thought", fsGet(rem, "thought")),
      "todo", fsGet(rem, "todo")),
    "radiology", fsGet(rem, "radiology"))

PhaseOf(K) == CHOOSE i \in DOMAIN MigratedKinds : MigratedKinds[i] = K

\* the first loop of migrateLocalDataToFirebase, from loop i on, that has a
\* record to push; 0 when there is none
RECURSIVE FirstPhase(_, _)
FirstPhase(loc, i) ==
  IF i > Len(MigratedKinds) THEN 0
  ELSE IF storageGet(loc, MigratedKinds[i]) # <<>> THEN i
  ELSE FirstPhase(loc, i + 1)

\* migrateLocalDataToFirebase from loop i on, up to its next await; past the
\* last loop it returns (pc init.sync)
PushFrom(task, loc, i) ==
  LET j == FirstPhase(loc, i)
  IN IF j = 0
       THEN [task EXCEPT !.pc = "init.sync", !.queue = <<>>]
       ELSE [task EXCEPT !.pc = "init.push", !.kind = MigratedKinds[j],
                         !.queue = storageGet(loc, MigratedKinds[j])]

\* migrationCounts.x++ and the next iteration, up to its await
Advance(task, loc) ==
  LET counted == [task EXCEPT !.sent = task.sent + 1]
  IN IF Len(task.queue) > 1
       THEN [counted EXCEPT !.pc = "init.push", !.queue = Tail(task.queue)]
       ELSE PushFrom(counted, loc, PhaseOf(task.kind) + 1)

\* initializeWithUser from `if (this.isOnline)` on, up to the await of
\* syncFirebaseToLocal
PullPhase(task) ==
  IF isOnline THEN [task EXCEPT !.pc = "init.pull"] ELSE Returned(task)

\* the records a migration run would push
PushCount(loc) ==
  Len(storageGet(loc, "thought")) + Len(storageGet(loc, "todo"))
    + Len(storageGet(loc, "radiology"))

\* initializeWithUser(user) up to its first await
initializeWithUser(t) ==
  /\ Free(t)
  /\ migrated \/ nextDoc + PushCount(local) <= MaxDoc + 1
  /\ firestoreService' = TRUE
  /\ LET b == [IdleTask EXCEPT !.op = "init", !.flag = migrated]
     IN IF migrated
          THEN /\ tasks' = [tasks EXCEPT ![t] =
                    PullPhase([b EXCEPT !.needed = "no"])]
               /\ UNCHANGED migrated
        ELSE IF ~hasLocalData(local)
          THEN /\ tasks' = [tasks EXCEPT ![t] =
                    PullPhase([b EXCEPT !.needed = "no"])]
               /\ migrated' = markMigrationCompleted(migrated)
          ELSE /\ tasks' = [tasks EXCEPT ![t] = [b EXCEPT !.pc = "init.check"]]
               /\ UNCHANGED migrated
  /\ snap' = Forget(snap)
  /\ UNCHANGED <<local, remote, isOnline, isGoogleSignedIn, deletedItems,
                 undoFns, events, nextEvent, nextId, now, stored, lastRun, nextDoc,
                 listeners>>

\* the remote reads of needsMigration settle.  A rejection is caught:
\* migration is assumed needed.
InitCheckSettled(t) ==
  /\ Suspended(t, "init.check")
  /\ \E ok \in BOOLEAN :
       LET task == tasks[t]
       IN IF ok /\ hasFirebaseData(remote)
            THEN /\ migrated' = markMigrationCompleted(migrated)
                 /\ tasks' = [tasks EXCEPT ![t] =
                      PullPhase([task EXCEPT !.needed = "no"])]
            ELSE /\ tasks' = [tasks EXCEPT ![t] =
                      PushFrom([task EXCEPT !.needed = "yes", !.rfail = ~ok],
                               local, 1)]
                 /\ UNCHANGED migrated
  /\ UNCHANGED <<local, remote, firestoreService, isOnline, isGoogleSignedIn,
                 deletedItems, undoFns, events, nextEvent, nextId, now, stored, snap,
                 lastRun, nextDoc, listeners>>

\* migrateLocalDataToFirebase has returned, or continues
Continue(t, nxt) ==
  LET completed == nxt.pc = "init.sync"
  IN /\ tasks' = [tasks EXCEPT ![t] = IF completed THEN PullPhase(nxt) ELSE nxt]
     /\ migrated' = IF completed THEN markMigrationCompleted(migrated)
                                 ELSE migrated
     /\ lastRun' = IF completed THEN "completed" ELSE lastRun

\* a remote write of the migration is rejected: the run is aborted and the
\* error leaves initializeWithUser
Abort(t) ==
  /\ tasks' = [tasks EXCEPT ![t] = Threw(tasks[t])]
  /\ lastRun' = "aborted"
  /\ UNCHANGED migrated

\* `await this.firestoreService.addX(x.content)` of a migration loop settles
InitPushSettled(t) ==
  /\ Suspended(t, "init.push")
  /\ \E ok \in BOOLEAN :
       LET task == tasks[t]
           r == Head(task.queue)
           docId == MaxId + nextDoc
       IN IF ok
            THEN /\ remote' = fsAddDoc(remote, task.kind, r, docId, now)
                 /\ nextDoc' = nextDoc + 1
                 /\ IF task.kind = "todo" /\ NeedsPatch(r)
                      THEN /\ tasks' = [tasks EXCEPT ![t] =
                                [task EXCEPT !.pc = "init.patch", !.id = docId]]
                           /\ UNCHANGED <<migrated, lastRun>>
                      ELSE Continue(t, Advance(task, local))
            ELSE /\ Abort(t)
                 /\ UNCHANGED <<remote, nextDoc>>
  /\ UNCHANGED <<local, firestoreService, isOnline, isGoogleSignedIn,
                 deletedItems, undoFns, events, nextEvent, nextId, now, stored, snap,
                 listeners>>

\* `await this.firestoreService.updateTodo(newTodo.id, {...})` of the task
\* loop settles
InitPatchSettled(t) ==
  /\ Suspended(t, "init.patch")
  /\ \E ok \in BOOLEAN :
       LET task == tasks[t]
       IN IF ok
            THEN /\ remote' = fsUpdateTodo(remote, task.id,
                                           PatchOf(Head(task.queue)))
                 /\ Continue(t, Advance(task, local))
            ELSE /\ Abort(t)
                 /\ UNCHANGED remote
  /\ UNCHANGED <<local, firestoreService, isOnline, isGoogleSignedIn,
                 deletedItems, undoFns, events, nextEvent, nextId, now, stored, snap,
                 nextDoc, listeners>>

\* `await this.migration.syncFirebaseToLocal()` settles; a rejection is
\* caught and logged
InitPullSettled(t) ==
  /\ Suspended(t, "init.pull")
  /\ \E ok \in BOOLEAN :
       LET task == tasks[t]
       IN /\ local' = IF ok THEN syncFirebaseToLocal(local, remote) ELSE local
          /\ tasks' = [tasks EXCEPT ![t] =
               IF ok THEN Returned([task EXCEPT !.pulled = TRUE])
                     ELSE Returned([task EXCEPT !.rfail = TRUE])]
  /\ UNCHANGED <<remote, firestoreService, isOnline, isGoogleSignedIn,
                 deletedItems, undoFns, events, nextEvent, nextId, now, stored, snap,
                 migrated, lastRun, nextDoc, listeners>>

\* The page is loaded anew: the DataService singleton is constructed again;
\* localStorage, the remote store and the calendar keep what they hold.
Restart ==
  /\ Free(Main) \/ tasks[Main].hung
  /\ firestoreService' = FALSE
  /\ isGoogleSignedIn' = FALSE
  /\ deletedItems' = <<>>
  /\ undoFns' = {}
  /\ tasks' = [t \in Slots |-> IdleTask]
  /\ snap' = <<>>
  /\ listeners' = [K \in Kinds |-> <<>>]
  /\ UNCHANGED <<local, remote, isOnline, events, nextEvent, nextId, now, stored,
                 migrated, lastRun, nextDoc>>

(***************************************************************************)
(* Smart edit (smartEdit.ts) and the classifier (classifier.ts).  A text   *)
(* is a sequence of tokens: a letter, a blank, ";", "'", a tag, or "@"     *)
(* with the date string that follows it.                                   *)
(***************************************************************************)
\* texts the edit dialog passes to smartEditItem
SmartInputs ==
  { <<"c", ";">>, <<"c", "'">>, <<"c", " ", "#Rad">>, <<" ", "c">>,
    <<"c", " ", "@1", ";">> }

TagTokens == {"#rad", "#Rad"}
DateTokens == {"@1", "@x"}

\* String.prototype.toLowerCase on a tag
ToLowerCase(tok) == IF tok = "#Rad" THEN "#rad" ELSE tok

\* new Date(dateString): the date, or Invalid Date
ParseDate(tok) == IF tok = "@1" THEN 1 ELSE NoDate

EndsWith(s, suffix) ==
  /\ Len(s) >= Len(suffix)
  /\ SubSeq(s, Len(s) - Len(suffix) + 1, Len(s)) = suffix

\* s.slice(0, -n)
DropLast(s, n) == SubSeq(s, 1, Len(s) - n)

\* extractTags: content.match(/#\w+/g), lower-cased
extractTags(content) ==
  LET tags == SelectSeq(content, LAMBDA tok : tok \in TagTokens)
  IN [i \in DOMAIN tags |-> ToLowerCase(tags[i])]

\* isRadiologyNote
isRadiologyNote(content) ==
  \E i \in DOMAIN extractTags(content) : extractTags(content)[i] = "#rad"

\* .replace(/\s+/g, ' ')
RECURSIVE Collapse(_)
Collapse(s) ==
  IF Len(s) < 2 THEN s
  ELSE IF s[1] \in Whitespace /\ s[2] \in Whitespace THEN Collapse(Tail(s))
  ELSE <<IF s[1] \in Whitespace THEN " " ELSE s[1]>> \o Collapse(Tail(s))

\* removeTagsFromContent
removeTagsFromContent(content) ==
  Collapse(Trim(SelectSeq(content, LAMBDA tok : tok \notin TagTokens)))

\* content.match(/\s@(.+)$/): the position of the blank, or 0
DateMatch(content) ==
  LET hits == { i \in 1..(Len(content) - 1) :
                  content[i] \in Whitespace /\ content[i + 1] \in DateTokens }
  IN IF hits = {} THEN 0 ELSE CHOOSE i \in hits : \A j \in hits : i <= j

\* the date of the match: valid when the date string runs to the end of
\* the text and parses
MatchedDate(content) ==
  LET i == DateMatch(content)
  IN IF i # 0 /\ i + 1 = Len(content) THEN ParseDate(content[i + 1])
                                      ELSE NoDate

\* classifyInput
classifyInput(input) ==
  LET trimmed == Trim(input)
  IN IF EndsWith(trimmed, <<"'">>) \/ EndsWith(trimmed, <<";", ";">>)
       THEN [type |-> "investment",
             content |-> IF EndsWith(trimmed, <<";", ";">>)
                           THEN Trim(DropLast(trimmed, 2))
                           ELSE Trim(DropLast(trimmed, 1)),
             tags |-> <<>>, dueDate |-> NoDate]
     ELSE IF isRadiologyNote(trimmed)
       THEN [type |-> "radiology", content |-> removeTagsFromContent(trimmed),
             tags |-> extractTags(trimmed), dueDate |-> NoDate]
     ELSE IF EndsWith(trimmed, <<";">>)
       THEN LET content == Trim(DropLast(trimmed, 1))
                dueDate == MatchedDate(content)
            IN [type |-> "todo",
                content |-> IF dueDate # NoDate
                              THEN Trim(SubSeq(content, 1,
                                               DateMatch(content) - 1))
                              ELSE content,
                tags |-> <<>>, dueDate |-> dueDate]
     ELSE [type |-> "thought", content |-> trimmed, tags |-> <<>>,
           dueDate |-> NoDate]

\* the updates updateItemContent passes to updateX
ItemUpdates(itemType, classification) ==
  IF itemType = "todo" /\ classification.dueDate # NoDate
    THEN [content |-> classification.content,
          dueDate |-> classification.dueDate]
  ELSE IF itemType = "radiology" /\ classification.tags # <<>>
    THEN [content |-> classification.content, tags |-> classification.tags]
  ELSE [content |-> classification.content]

\* what `newItemId = await dataService.convertToX(...)` assigns:
\* convertToX returns no value
NoId == NoRecord.id

\* smartEditItem(item, currentType, newContent) in local storage mode,
\* where none of its awaits waits for the network: updateItemContent, or
\* convertToX followed by updateItemContent(newItemId, ...).
smartEditItem(t, id, currentType, newContent) ==
  /\ Free(t)
  /\ ~firestoreService
  /\ nextId <= MaxId
  /\ LET classification == classifyInput(newContent)
         toType == classification.type
         upd == ItemUpdates(toType, classification)
         sourceData == Find(storageGet(local, currentType), id)
         r == NewRecord(toType, sourceData.content, NoDate, ConvertTags(toType))
         b == [IdleTask EXCEPT !.op = "smartEdit", !.kind = toType,
                               !.src = currentType, !.id = id,
                               !.text = newContent, !.cur = sourceData,
                               !.arg = upd,
                               !.prior = Ids(storageGet(local, toType))]
     IN IF toType = currentType
          THEN /\ local' = storageUpdate(local, currentType, id, upd)
               /\ tasks' = [tasks EXCEPT ![t] = Returned(b)]
               /\ UNCHANGED nextId
        ELSE IF sourceData = NoRecord
          THEN /\ local' = storageUpdate(local, toType, NoId, upd)
               /\ tasks' = [tasks EXCEPT ![t] = Returned(b)]
               /\ UNCHANGED nextId
          ELSE /\ local' = storageUpdate(
                             storageAdd(storageDelete(local, currentType, id),
                                        toType, r),
                             toType, NoId, upd)
               /\ nextId' = nextId + 1
               /\ tasks' = [tasks EXCEPT ![t] = Returned([b EXCEPT !.rec = r])]
  /\ listeners' = Notify(listeners, local', Kinds)
  /\ snap' = Forget(snap)
  /\ UNCHANGED <<remote, firestoreService, isOnline, isGoogleSignedIn,
                 deletedItems, undoFns, events, nextEvent, now, stored, migrated,
                 lastRun, nextDoc>>

(***************************************************************************)
(* The local store on malformed persisted values (the storage object of    *)
(* classifier.ts: getThoughts and getTodos parse under try/catch and       *)
(* filter with a type guard, getRadiologyNotes and getInvestments do       *)
(* neither).  stored[K] is the shape of the persisted text: "list" (the    *)
(* JSON of a list, its entries in local[K]), "text" (not JSON) or          *)
(* "object" (the JSON of a value that is no list).                         *)
(***************************************************************************)
Shapes == {"list", "text", "object"}

\* a null entry of a persisted list
Null == [null |-> TRUE]

isValidThought(obj) ==
  obj # Null /\ {"id", "content", "createdAt", "tags"} \subseteq DOMAIN obj

isValidTodo(obj) ==
  obj # Null /\ {"id", "content", "isCompleted", "priority"} \subseteq DOMAIN obj

\* getThoughts / getTodos / getRadiologyNotes / getInvestments: whether the
\* call raises, and the list it returns
getPersisted(loc, sh, K) ==
  IF K \in {"thought", "todo"}
    THEN LET valid == SelectSeq(loc[K], LAMBDA e : IF K = "todo" THEN isValidTodo(e)
                                                 ELSE isValidThought(e))
         IN [raised |-> FALSE,
             list |-> IF sh[K] = "list"
                        THEN [i \in DOMAIN valid |-> FromJSON(K, valid[i])]
                        ELSE <<>>]
    ELSE \* JSON.parse(data) raises on "text"; notes.map is no function on
         \* "object"; note.createdAt raises on a null entry
         LET raised == sh[K] # "list" \/ \E i \in DOMAIN loc[K] : loc[K][i] = Null
         IN [raised |-> raised,
             list |-> IF raised THEN <<>>
                      ELSE [i \in DOMAIN loc[K] |-> FromJSON(K, loc[K][i])]]

Malformed(K) ==
  stored[K] # "list" \/ \E i \in DOMAIN local[K] : local[K][i] = Null

StorageFrame ==
  UNCHANGED <<remote, firestoreService, isOnline, isGoogleSignedIn,
              deletedItems, undoFns, events, nextEvent, now, snap, migrated,
              lastRun, nextDoc, listeners>>

\* something else than this program writes the persisted value of a kind
Corrupt(K, shape) ==
  /\ Free(Main)
  /\ ~Malformed(K)
  /\ IF shape = "list"
       THEN /\ local' = [local EXCEPT ![K] = <<Null>> \o local[K]]
            /\ UNCHANGED stored
       ELSE /\ local' = [local EXCEPT ![K] = <<>>]
            /\ stored' = [stored EXCEPT ![K] = shape]
  /\ UNCHANGED <<tasks, nextId>>
  /\ StorageFrame

StorageCall(op, K) ==
  [IdleTask EXCEPT !.op = op, !.kind = K, !.flag = Malformed(K)]

\* storage.getX()
StorageGet(t, K) ==
  /\ Free(t)
  /\ tasks' = [tasks EXCEPT ![t] =
                 Settled(StorageCall("storage.get", K),
                         IF getPersisted(local, stored, K).raised
                           THEN "threw" ELSE "returned")]
  /\ UNCHANGED <<local, stored, nextId>>
  /\ StorageFrame

\* storage.addX(record): getX, unshift, saveX
StorageAdd(t, K, text) ==
  /\ Free(t)
  /\ nextId <= MaxId
  /\ LET got == getPersisted(local, stored, K)
         r == NewRecord(K, text, NoDate, <<>>)
         b == [StorageCall("storage.add", K) EXCEPT !.rec = r]
     IN IF got.raised
          THEN /\ tasks' = [tasks EXCEPT ![t] = Settled(b, "threw")]
               /\ UNCHANGED <<local, stored, nextId>>
          ELSE /\ local' = storageSave(local, K, <<r>> \o got.list)
               /\ stored' = [stored EXCEPT ![K] = "list"]
               /\ nextId' = nextId + 1
               /\ tasks' = [tasks EXCEPT ![t] = Returned(b)]
  /\ StorageFrame

\* storage.deleteX(id): getX, filter, saveX
StorageDelete(t, K, id) ==
  /\ Free(t)
  /\ LET got == getPersisted(local, stored, K)
         b == [StorageCall("storage.delete", K) EXCEPT !.id = id]
     IN IF got.raised
          THEN /\ tasks' = [tasks EXCEPT ![t] = Settled(b, "threw")]
               /\ UNCHANGED <<local, stored>>
          ELSE /\ local' = storageSave(local, K, Without(got.list, id))
               /\ stored' = [stored EXCEPT ![K] = "list"]
               /\ tasks' = [tasks EXCEPT ![t] = Returned(b)]
  /\ UNCHANGED nextId
  /\ StorageFrame

(***************************************************************************)
(* Subscriptions                                                           *)
(***************************************************************************)
\* subscribeToThoughts / subscribeToTodos / ...(callback).  With a remote
\* session the callback is handed to FirestoreService and the in-process
\* listener set is left alone; without, the callback is registered and
\* invoked with storage.getX().
Subscribe(K) ==
  /\ listeners[K] = <<>>
  /\ listeners' = IF firestoreService
                    THEN listeners
                    ELSE [listeners EXCEPT ![K] = <<storageGet(local, K)>>]
  /\ UNCHANGED <<local, remote, firestoreService, isOnline, isGoogleSignedIn,
                 deletedItems, undoFns, events, nextEvent, nextId, now, stored, tasks,
                 snap, migrated, lastRun, nextDoc>>

subscribeToThoughts == Subscribe("thought")
subscribeToTodos == Subscribe("todo")
subscribeToRadiologyNotes == Subscribe("radiology")
subscribeToInvestments == Subscribe("investment")

\* the function subscribeToX returned, invoked: xListeners.delete(callback)
Unsubscribe(K) ==
  /\ listeners[K] # <<>>
  /\ listeners' = [listeners EXCEPT ![K] = <<>>]
  /\ UNCHANGED <<local, remote, firestoreService, isOnline, isGoogleSignedIn,
                 deletedItems, undoFns, events, nextEvent, nextId, now, stored, tasks,
                 snap, migrated, lastRun, nextDoc>>

(***************************************************************************)
(* Environment                                                             *)
(***************************************************************************)
\* an awaited remote or calendar call that never settles
Hang(t) ==
  /\ tasks[t].pc \in Awaits
  /\ ~tasks[t].hung
  /\ tasks' = [tasks EXCEPT ![t].hung = TRUE]
  /\ UNCHANGED <<local, remote, firestoreService, isOnline, isGoogleSignedIn,
                 deletedItems, undoFns, events, nextEvent, nextId, now, stored, snap>>
  /\ UNCHANGED <<migrated, lastRun, nextDoc, listeners>>

\* The clock is coarse: no awaited call that settles takes a tick.
Tick ==
  /\ \A t \in Slots : Free(t)
  /\ now < MaxTicks * TickMs
  /\ now' = now + TickMs
  /\ UNCHANGED <<local, remote, firestoreService, isOnline, isGoogleSignedIn,
                 deletedItems, undoFns, events, nextEvent, nextId, tasks, snap,
                 stored>>
  /\ UNCHANGED <<migrated, lastRun, nextDoc, listeners>>

\* window 'online' / 'offline' events.  A call reads isOnline once, in its
\* synchronous prefix (initializeWithUser: once, before the pull): a change
\* while a call is suspended is observed as a change before or after it.
GoOnline ==
  /\ Free(Main)
  /\ ~isOnline
  /\ isOnline' = TRUE
  /\ UNCHANGED <<local, remote, firestoreService, isGoogleSignedIn,
                 deletedItems, undoFns, events, nextEvent, nextId, now, stored, tasks,
                 snap>>
  /\ UNCHANGED <<migrated, lastRun, nextDoc, listeners>>

GoOffline ==
  /\ Free(Main)
  /\ isOnline
  /\ isOnline' = FALSE
  /\ UNCHANGED <<local, remote, firestoreService, isGoogleSignedIn,
                 deletedItems, undoFns, events, nextEvent, nextId, now, stored, tasks,
                 snap>>
  /\ UNCHANGED <<migrated, lastRun, nextDoc, listeners>>

\* tokenClient.callback with an access token
GoogleSignIn ==
  /\ ~isGoogleSignedIn
  /\ isGoogleSignedIn' = TRUE
  /\ UNCHANGED <<local, remote, firestoreService, isOnline,
                 deletedItems, undoFns, events, nextEvent, nextId, now, stored, tasks,
                 snap>>
  /\ UNCHANGED <<migrated, lastRun, nextDoc, listeners>>

\* handleSignoutClick: the token is revoked
GoogleSignOut ==
  /\ isGoogleSignedIn
  /\ isGoogleSignedIn' = FALSE
  /\ UNCHANGED <<local, remote, firestoreService, isOnline,
                 deletedItems, undoFns, events, nextEvent, nextId, now, stored, tasks,
                 snap>>
  /\ UNCHANGED <<migrated, lastRun, nextDoc, listeners>>

(***************************************************************************)
(* Specifications.  One facade call is in flight at a time: the next is    *)
(* made once the previous one has settled.                                 *)
(*   Spec       add, delete, softDelete, undo and convertTo on every kind  *)
(*              and the task toggles, connectivity changes, remote calls   *)
(*              that fail or hang; no calendar session and a clock that    *)
(*              stands still                                               *)
(*   SpecUndo   add, softDelete and the undo closures under a running      *)
(*              clock, with the tombstone sweep                            *)
(*   SpecCal    add, update and delete on every kind with a calendar       *)
(*              session                                                    *)
(*   SpecInit   add on every kind, session starts with migration and pull, *)
(*              page reloads                                               *)
(*   SpecSync   add, updateTodo and delete with a calendar session, online, *)
(*              no call failing or hanging                                 *)
(*   SpecUndoRace  remote session: undo closures invoked concurrently      *)
(*   SpecCalRace   remote session: updateTodo calls in flight together     *)
(*   SpecParse  the local store on well-formed and malformed values        *)
(*   SpecEdit   local storage mode: add on every kind and smart edits       *)
(*   SpecSub    local storage mode: every call on every kind, listeners    *)
(*              subscribing and unsubscribing                              *)
(***************************************************************************)
AddCalls ==
  \/ \E text \in AddInputs : addThought(Main, text)
  \/ \E text \in AddInputs, due \in DueDates \cup {NoDate} :
       addTodo(Main, text, due)
  \/ \E text \in AddInputs : addRadiologyNote(Main, text, RadTags)
  \/ \E text \in AddInputs : addInvestment(Main, text)
  \/ AddRemoteSettled(Main)

UpdateFlagCalls ==
  \/ \E id \in Shown("todo"), upd \in FlagUpdates : updateTodo(Main, id, upd)
  \/ UpdateRemoteSettled(Main)

UpdateDueCalls ==
  \/ \E id \in Shown("todo"), upd \in DueUpdates : updateTodo(Main, id, upd)
  \/ UpdateRemoteSettled(Main)

UpdateNoteCalls ==
  \/ \E id \in Shown("thought"), upd \in NoteUpdates :
       updateThought(Main, id, upd)
  \/ \E id \in Shown("radiology"), upd \in NoteUpdates :
       updateRadiologyNote(Main, id, upd)
  \/ \E id \in Shown("investment"), upd \in NoteUpdates :
       updateInvestment(Main, id, upd)
  \/ UpdateNoteRemoteSettled(Main)

DeleteCalls ==
  \/ \E id \in Shown("thought") : deleteThought(Main, id)
  \/ \E id \in Shown("todo") : deleteTodo(Main, id)
  \/ \E id \in Shown("radiology") : deleteRadiologyNote(Main, id)
  \/ \E id \in Shown("investment") : deleteInvestment(Main, id)
  \/ DeleteRemoteSettled(Main)

SoftDeleteCalls ==
  \/ \E id \in Shown("thought") : softDeleteThought(Main, id)
  \/ \E id \in Shown("todo") : softDeleteTodo(Main, id)
  \/ \E id \in Shown("radiology") : softDeleteRadiologyNote(Main, id)
  \/ \E id \in Shown("investment") : softDeleteInvestment(Main, id)
  \/ SoftDeleteRemoteSettled(Main)

UndoCalls ==
  \/ \E id \in 1..MaxId : undoThought(Main, id)
  \/ \E id \in 1..MaxId : undoTodo(Main, id)
  \/ \E id \in 1..MaxId : undoRadiologyNote(Main, id)
  \/ \E id \in 1..MaxId : undoInvestment(Main, id)
  \/ UndoRemoteSettled(Main)

ConvertCalls ==
  \/ \E from \in Kinds : \E id \in Shown(from) :
       convertToThought(Main, id, from)
  \/ \E from \in Kinds : \E id \in Shown(from) :
       convertToTodo(Main, id, from)
  \/ \E from \in Kinds : \E id \in Shown(from) :
       convertToInvestment(Main, id, from)
  \/ \E from \in Kinds : \E id \in Shown(from) :
       convertToRadiology(Main, id, from)
  \/ ConvertDeleteSettled(Main)

CalendarSteps ==
  \/ AddEventSettled(Main)
  \/ AddPatchSettled(Main)
  \/ UpdateGetSettled(Main)
  \/ UpdateCalendarSettled(Main)
  \/ GoogleSignIn
  \/ GoogleSignOut

Connectivity ==
  \/ GoOnline
  \/ GoOffline
  \/ Hang(Main)

Next ==
  \/ AddCalls
  \/ UpdateFlagCalls
  \/ DeleteCalls
  \/ SoftDeleteCalls
  \/ UndoCalls
  \/ ConvertCalls
  \/ Connectivity

Spec == Init /\ [][Next]_vars

NextUndo ==
  \/ AddCalls
  \/ SoftDeleteCalls
  \/ UndoCalls
  \/ Connectivity
  \/ Tick
  \/ cleanupOldDeletedItems(RetentionMs)

SpecUndo == Init /\ [][NextUndo]_vars

NextCal ==
  \/ AddCalls
  \/ UpdateDueCalls
  \/ UpdateNoteCalls
  \/ DeleteCalls
  \/ CalendarSteps
  \/ Connectivity

SpecCal == Init /\ [][NextCal]_vars

InitSteps ==
  \/ initializeWithUser(Main)
  \/ InitCheckSettled(Main)
  \/ InitPushSettled(Main)
  \/ InitPatchSettled(Main)
  \/ InitPullSettled(Main)

NextInit ==
  \/ AddCalls
  \/ InitSteps
  \/ Restart
  \/ Connectivity

SpecInit == Init /\ [][NextInit]_vars

\* a remote session on a device that is and stays online, every remote and
\* calendar call succeeding
InitSync == Init /\ firestoreService /\ isOnline

Succeeds(A) ==
  /\ A
  /\ \A t \in Slots : /\ ~tasks'[t].rfail
                       /\ ~tasks'[t].cfail
                       /\ tasks'[t].out # "threw"

NextSync ==
  \/ Succeeds(AddCalls)
  \/ Succeeds(UpdateDueCalls)
  \/ Succeeds(DeleteCalls)
  \/ Succeeds(CalendarSteps)

SpecSync == InitSync /\ [][NextSync]_vars

\* the application before any session start: local storage mode
InitLocal == Init /\ ~firestoreService

Subscriptions ==
  \/ subscribeToThoughts
  \/ subscribeToTodos
  \/ subscribeToRadiologyNotes
  \/ subscribeToInvestments
  \/ \E K \in Kinds : Unsubscribe(K)

LocalCalls ==
  \/ \E text \in AddInputs : addThought(Main, text)
  \/ \E text \in AddInputs : addTodo(Main, text, NoDate)
  \/ \E text \in AddInputs : addRadiologyNote(Main, text, RadTags)
  \/ \E text \in AddInputs : addInvestment(Main, text)
  \/ \E id \in Shown("todo"), upd \in FlagUpdates : updateTodo(Main, id, upd)
  \/ \E K \in Kinds : \E id \in Shown(K) : Delete(Main, K, id)
  \/ \E K \in Kinds : \E id \in Shown(K) : SoftDelete(Main, K, id)
  \/ \E K \in Kinds : \E id \in 1..MaxId : Undo(Main, K, id)
  \/ \E K, from \in Kinds : \E id \in Shown(from) : ConvertTo(Main, K, id, from)

NextSub ==
  \/ LocalCalls
  \/ Subscriptions

LocalAdds ==
  \/ \E text \in AddInputs : addThought(Main, text)
  \/ \E text \in AddInputs : addTodo(Main, text, NoDate)
  \/ \E text \in AddInputs : addRadiologyNote(Main, text, RadTags)
  \/ \E text \in AddInputs : addInvestment(Main, text)

NextEdit ==
  \/ LocalAdds
  \/ \E K \in Kinds : \E id \in Shown(K), text \in SmartInputs :
       smartEditItem(Main, id, K, text)

SpecEdit == InitLocal /\ [][NextEdit]_vars

\* a remote session, online: soft deletes, and undo closures invoked while
\* an earlier invocation may still be awaiting its remote write
NextUndoRace ==
  \/ \E text \in AddInputs : addThought(Main, text)
  \/ \E text \in AddInputs : addInvestment(Main, text)
  \/ AddRemoteSettled(Main)
  \/ \E id \in Shown("thought") : softDeleteThought(Main, id)
  \/ \E id \in Shown("investment") : softDeleteInvestment(Main, id)
  \/ SoftDeleteRemoteSettled(Main)
  \/ \E t \in Slots, id \in 1..MaxId : undoThought(t, id)
  \/ \E t \in Slots, id \in 1..MaxId : undoInvestment(t, id)
  \/ \E t \in Slots : UndoRemoteSettled(t)

SpecUndoRace == InitSync /\ [][NextUndoRace]_vars

\* a remote session, online, every remote and calendar call succeeding:
\* addTodo, and updateTodo calls started while another is in flight
NextCalRace ==
  \/ \E text \in AddInputs, due \in DueDates \cup {NoDate} :
       Succeeds(addTodo(Main, text, due))
  \/ Succeeds(AddRemoteSettled(Main))
  \/ Succeeds(AddEventSettled(Main))
  \/ Succeeds(AddPatchSettled(Main))
  \/ \E t \in Slots, id \in Shown("todo"), upd \in DueUpdates :
       Succeeds(updateTodo(t, id, upd))
  \/ \E t \in Slots : Succeeds(UpdateGetSettled(t))
  \/ \E t \in Slots : Succeeds(UpdateCalendarSettled(t))
  \/ \E t \in Slots : Succeeds(UpdateRemoteSettled(t))
  \/ GoogleSignIn

SpecCalRace == InitSync /\ [][NextCalRace]_vars

NextParse ==
  \/ \E K \in Kinds, shape \in Shapes : Corrupt(K, shape)
  \/ \E K \in Kinds : StorageGet(Main, K)
  \/ \E K \in Kinds, text \in AddInputs : StorageAdd(Main, K, text)
  \/ \E K \in Kinds, id \in 1..MaxId : StorageDelete(Main, K, id)

SpecParse == InitLocal /\ [][NextParse]_vars

SpecSub == InitLocal /\ [][NextSub]_vars

(***************************************************************************)
(* Properties                                                              *)
(***************************************************************************)
Call == tasks[Main]
Completed(op) == Call.op = op /\ Call.pc = "done" /\ Call.out = "returned"
LocalList(K) == storageGet(local, K)
Count(list, P(_)) == Cardinality({ i \in DOMAIN list : P(list[i]) })
KindsOf(id, ids(_)) == { K \in Kinds : id \in ids(K) }

\* C1  Read-after-write: right after add(K, content) has returned, list(K)
\* holds exactly one record with the trimmed content and an id no store,
\* tombstone or collection knew before the add, in every facade mode.
C1_ReadAfterWrite ==
  Completed("add") =>
    Count(getList(Call.kind),
          LAMBDA r : r.content = Trim(Call.text) /\ r.id \notin Call.prior) = 1

\* C2  Soft-delete/undo round trip: when the undo closure found its
\* tombstone within the retention window and has returned with its mirror write landed (or without a
\* remote session), list(K) holds the record exactly as it was listed before
\* softDelete: same id, content, createdAt, tags, dueDate, isCompleted,
\* priority.
C2_UndoRoundTrip ==
  ( /\ Completed("undo")
    /\ Call.rec # NoRecord
    /\ ~Call.stale
    /\ ~Call.rfail
    /\ firestoreService => "remoteWrite" \in Range(Call.trace)
    /\ snap[Call.id] # NoRecord )
  => Find(getList(Call.kind), Call.id) = snap[Call.id]

\* C3  Tombstone expiry: an undo closure invoked more than the retention
\* window after its softDelete re-inserts the record into no collection,
\* local or remote.
C3_ExpiredUndoIsNoOp ==
  (Call.op = "undo" /\ Call.stale) =>
    /\ Call.id \notin Ids(LocalList(Call.kind))
    /\ Call.id \notin DocIds(remote, Call.kind)

\* C4  Conversion: after convertTo(target, id, source) has returned for an id
\* of the source collection, the source collection no longer holds id and
\* the target collection has gained exactly one record, with the content of
\* the source record and an id other than the source id; the same holds of
\* the remote collections once both mirror writes have landed.
C4_Conversion ==
  (Completed("convert") /\ Call.cur # NoRecord) =>
    LET gained == Ids(LocalList(Call.kind)) \ Call.prior
    IN /\ Call.id \notin Ids(LocalList(Call.src))
       /\ gained = {Call.rec.id}
       /\ Call.rec.id # Call.id
       /\ Find(LocalList(Call.kind), Call.rec.id).content = Call.cur.content
       /\ (firestoreService => Call.id \notin DocIds(remote, Call.src))
       /\ (firestoreService /\ ~Call.rfail
             /\ Len(Call.trace) = 2 * Len(LocalFirst) + 2)
            => /\ Call.rec.id \in DocIds(remote, Call.kind)
               /\ Find(fsGet(remote, Call.kind), Call.rec.id).content
                    = Call.cur.content

\* a conversion has returned, with and without a remote session
C4_Witness ==
  /\ Completed("convert")
  /\ Call.cur # NoRecord
  /\ Call.rec.id \in Ids(LocalList(Call.kind))
  /\ Call.rec.id \in DocIds(remote, Call.kind)

\* C5  Mutual exclusivity: in every reachable state an id is in at most one
\* of the four active collections, in the local store and in the remote
\* store.
C5_MutualExclusivity ==
  \A id \in 1..MaxId :
    /\ Cardinality(KindsOf(id, LAMBDA K : Ids(LocalList(K)))) <= 1
    /\ Cardinality(KindsOf(id, LAMBDA K : DocIds(remote, K))) <= 1

\* a soft-deleted record is back next to a record of another collection
C5_Witness ==
  /\ Completed("undo")
  /\ Call.rec # NoRecord
  /\ \E a, b \in 1..MaxId, K, L \in Kinds :
       a # b /\ K # L /\ a \in Ids(LocalList(K)) /\ b \in Ids(LocalList(L))

Issued(what) == { i \in DOMAIN Call.trace : Call.trace[i] = what }
Before(i, what) == \E j \in Issued(what) : j < i
Crud == {"add", "update", "delete"}

C8_ErrorsSwallowed ==
  (Call.pc = "done" /\ Call.rfail) => Call.out = "returned"

\* C9  Fire-and-forget: a facade call whose remote or calendar call never
\* settles has returned to its caller all the same.
C9_FireAndForget ==
  Call.hung => Call.out = "returned"

\* C10  Calendar coupling: once updateTodo has returned with its calendar
\* and remote calls succeeded, a due date set on a task that had none has
\* left a non-empty googleEventId on the remote and on the local copy, and a
\* due date cleared on a task with a ref has left an empty ref on both and
\* no event.
C10_CalendarCoupling ==
  ( /\ Completed("update")
    /\ ~Call.rfail
    /\ ~Call.cfail
    /\ Issued("calendar") # {}
    /\ Find(LocalList("todo"), Call.id) # NoRecord )
  => LET loc == Find(LocalList("todo"), Call.id)
         rem == fsGetTodoById(remote, Call.id)
     IN IF Call.arg.dueDate # NoDate /\ Call.cur.googleEventId = NoRef
          THEN rem.googleEventId # NoRef /\ loc.googleEventId # NoRef
        ELSE IF Call.arg.dueDate = NoDate /\ Call.cur.googleEventId # NoRef
          THEN /\ rem.googleEventId = NoRef
               /\ loc.googleEventId = NoRef
               /\ Call.cur.googleEventId \notin events
        ELSE TRUE

LocalTodos == LocalList("todo")

\* C11  Calendar reference invariant: whenever no operation is in flight
\* and the last one met no failure, a task of the local store that carries
\* a non-empty googleEventId has a dueDate.
C11_RefImpliesDueDate ==
  (Free(Main) /\ ~Call.rfail /\ ~Call.cfail) =>
    \A i \in DOMAIN LocalTodos :
      LocalTodos[i].googleEventId # NoRef => LocalTodos[i].dueDate # NoDate

\* C12  Calendar calls are best-effort: when the calendar call of an update
\* never settles, the remote mirror write of that update has been issued
\* all the same.
C12_CalendarNeverBlocksMirror ==
  (Call.op = "update" /\ Call.cal # "none" /\ Call.hung)
    => Issued("remoteWrite") # {}

\* C19  createdAt immutability: a record that is in a store, local or
\* remote, after softDelete and undo carries the createdAt it was listed
\* with before the softDelete.
C19_CreatedAtImmutable ==
  \A id \in DOMAIN snap :
    snap[id] # NoRecord =>
      \A K \in Kinds :
        /\ \A d \in remote[K] : d.id = id => d.createdAt = snap[id].createdAt
        /\ \A i \in DOMAIN LocalList(K) :
             LocalList(K)[i].id = id
               => LocalList(K)[i].createdAt = snap[id].createdAt

\* C20  Local store ordering: the list of every kind is ordered
\* newest-first by createdAt.
C20_NewestFirst ==
  \A K \in Kinds :
    \A i, j \in DOMAIN LocalList(K) :
      i < j => LocalList(K)[i].createdAt >= LocalList(K)[j].createdAt

InitCall == Call.op = "init"
Pushing == {"init.push", "init.patch"}

\* needsMigration has returned and neither store has changed since
Decided ==
  \/ Call.needed = "yes" /\ Call.pc = "init.push" /\ Call.sent = 0
  \/ Call.needed = "no" /\ Call.pc \in {"init.pull", "done"} /\ ~Call.pulled

\* C13  Migration decision: when needsMigration has returned with its remote
\* reads answered, it has returned true exactly when the remote store holds
\* no record of any of the four kinds, the local store holds a record of
\* some kind and the completion flag was not set.
C13_MigrationDecision ==
  (InitCall /\ Decided /\ ~Call.rfail) =>
    ( Call.needed = "yes" <=>
        /\ \A K \in Kinds : remote[K] = {}
        /\ \E K \in Kinds : LocalList(K) # <<>>
        /\ ~Call.flag )

\* migrateLocalDataToFirebase has returned and the pull has not overwritten
\* the local collections
MigrationDone ==
  /\ InitCall
  /\ Call.needed = "yes"
  /\ Call.pc \in {"init.pull", "done"}
  /\ Call.out # "threw"
  /\ ~Call.pulled

\* C14  Migration completeness: when migration has run to completion, every
\* local record of every one of the four kinds has a document of its kind
\* in the remote store with its content and, for a task, its isCompleted,
\* priority and dueDate.
C14_MigrationComplete ==
  MigrationDone =>
    \A K \in Kinds :
      \A i \in DOMAIN LocalList(K) :
        \E d \in remote[K] :
          /\ d.content = LocalList(K)[i].content
          /\ K = "todo" => /\ d.isCompleted = LocalList(K)[i].isCompleted
                           /\ d.priority = LocalList(K)[i].priority
                           /\ d.dueDate = LocalList(K)[i].dueDate

\* C15  Migration runs at most once: a migration run that completes sets the
\* completion flag, and once the flag is set it stays set and no session
\* start pushes a local record to the remote store.
C15_AtMostOnce ==
  [][ /\ migrated => /\ migrated'
                     /\ nextDoc' = nextDoc
                     /\ Call'.pc \notin Pushing
      /\ ( /\ Call.pc \in Pushing
           /\ Call'.op = "init"
           /\ Call'.pc \notin Pushing
           /\ Call'.out # "threw" ) => migrated' ]_vars

\* a session start after a completed migration and a page reload: the flag
\* was found set and nothing was pushed
C15_Witness ==
  /\ lastRun = "completed"
  /\ InitCall
  /\ Call.flag
  /\ Call.pc = "done"
  /\ Call.sent = 0
  /\ \E K \in Kinds : \E d \in remote[K] : d.id > MaxId
  /\ \E K \in Kinds : LocalList(K) # <<>>

\* C16  Migration retry: when the last migration run was aborted and the
\* remote store holds nothing but what that run pushed, the next session
\* start finds the flag unset and attempts the migration again.
C16_RetryAfterAbort ==
  ( /\ InitCall
    /\ lastRun = "aborted"
    /\ Call.needed # "none"
    /\ \A K \in Kinds : \A d \in remote[K] : d.id > MaxId )
  => (~Call.flag /\ Call.needed = "yes")

\* C17  One-shot pull: when initializeWithUser has returned with its pull
\* succeeded, each of the four local collections equals the remote
\* collection of its kind.
C17_PullMirrorsRemote ==
  (InitCall /\ Call.pc = "done" /\ Call.pulled) =>
    \A K \in Kinds : LocalList(K) = fsGet(remote, K)

\* C18  Local-mode subscription: in local storage mode, between two calls,
\* a subscribed listener of kind K has last been invoked with the local
\* collection of K as it is now.
C18_ListenersCurrent ==
  \A K \in Kinds :
    (~firestoreService /\ Free(Main) /\ listeners[K] # <<>>)
      => listeners[K][1] = LocalList(K)

\* the calendar call the claimed branch makes for a new due date and the
\* ref of the remote copy
Expected(due, ref) ==
  IF due # NoDate THEN (IF ref = NoRef THEN "create" ELSE "update")
  ELSE (IF ref # NoRef THEN "delete" ELSE "none")

\* updateTodo has read the remote copy of the task
Branching == Call.op = "update" /\ Call.kind = "todo" /\ Call.cur # NoRecord

\* C22  Three-way calendar branch: once updateTodo has read the remote copy,
\* it issues no calendar call when the due date is cleared and the copy has
\* no ref, and exactly one otherwise: createEvent (no ref, date set),
\* updateEvent on the ref (ref, date set) or deleteEvent on the ref (ref,
\* date cleared).  When the call has succeeded, the updates sent to the
\* remote store carry the new ref after a create, an empty ref after a
\* delete and no ref otherwise, and the calendar has gained the new event,
\* lost the deleted one, or is unchanged.
C22_ThreeWayBranch ==
  /\ [](Branching =>
          LET want == Expected(Call.arg.dueDate, Call.cur.googleEventId)
          IN /\ Cardinality(Issued("calendar"))
                  = (IF want = "none" THEN 0 ELSE 1)
             /\ Call.pc = "upd.cal" =>
                  /\ Call.cal = want
                  /\ want # "create" => Call.ev = Call.cur.googleEventId
             /\ (Call.pc = "upd.remote" /\ ~Call.cfail) =>
                  CASE want = "create" ->
                         /\ Call.upd.googleEventId = Call.ev
                         /\ Call.ev # NoRef
                         /\ Call.ev \in events
                    [] want = "delete" ->
                         /\ Call.upd.googleEventId = NoRef
                         /\ Call.cur.googleEventId \notin events
                    [] OTHER -> "googleEventId" \notin DOMAIN Call.upd)
  /\ [][ (Call.pc = "upd.cal" /\ Call'.pc = "upd.remote" /\ ~Call'.cfail) =>
           CASE Call.cal = "create" ->
                  /\ Cardinality(events') = Cardinality(events) + 1
                  /\ events \subseteq events'
             [] Call.cal = "delete" -> events' = events \ {Call.ev}
             [] OTHER -> events' = events ]_vars

\* updateTodo has cleared the due date of a task whose remote copy had a
\* ref: the event is deleted and the ref goes empty with the update
C22_Witness ==
  /\ Branching
  /\ Call.pc = "upd.remote"
  /\ ~Call.cfail
  /\ Call.arg.dueDate = NoDate
  /\ Call.cur.googleEventId # NoRef

\* the fields of a record of kind K the stores are compared on
Compared(K) ==
  IF K = "todo"
    THEN {"content", "isCompleted", "priority", "dueDate", "googleEventId"}
    ELSE {"content"}

\* C23  Local/remote convergence: with a remote session, online and every
\* remote and calendar call succeeding, whenever no call is in flight the
\* local and the remote collection of each kind hold the same ids and, for
\* each id, the same content and, for a task, the same isCompleted,
\* priority, dueDate and googleEventId.
C23_Convergence ==
  Free(Main) =>
    \A K \in Kinds :
      /\ Ids(LocalList(K)) = DocIds(remote, K)
      /\ \A d \in remote[K] :
           \A f \in Compared(K) : Find(LocalList(K), d.id)[f] = d[f]

\* C25  Failed session start: when initializeWithUser has failed with a
\* migration error, the facade is in local storage mode: list(K) is the
\* local collection of K, for every kind.
C25_LocalModeAfterFailure ==
  (InitCall /\ Call.pc = "done" /\ Call.out = "threw") =>
    /\ ~firestoreService
    /\ \A K \in Kinds : getList(K) = LocalList(K)

\* C27  softDelete always yields a usable undo: when softDelete has settled
\* after removing the record from the local store, it has returned and the
\* caller holds the undo function.
C27_UndoAlwaysHanded ==
  ( /\ Call.op = "softDelete"
    /\ Call.pc = "done"
    /\ Call.rec # NoRecord
    /\ Call.id \notin Ids(LocalList(Call.kind))
    /\ Call.id \in DOMAIN deletedItems )
  => /\ Call.out = "returned"
     /\ <<Call.id, Call.kind>> \in undoFns

\* C28  convertTo does not lose the record: when convertTo has settled,
\* normally or with an error, for an id of the source collection, the local
\* store holds the content of the source record under id in the source
\* collection or under a new id in the target collection.
C28_ConvertKeepsRecord ==
  (Call.op = "convert" /\ Call.pc = "done" /\ Call.cur # NoRecord) =>
    \/ Find(LocalList(Call.src), Call.id).id = Call.id
         /\ Find(LocalList(Call.src), Call.id).content = Call.cur.content
    \/ \E i \in DOMAIN LocalList(Call.kind) :
         /\ LocalList(Call.kind)[i].id \notin Call.prior
         /\ LocalList(Call.kind)[i].id # Call.id
         /\ LocalList(Call.kind)[i].content = Call.cur.content

\* C29  Locally written records survive session start: where nothing is
\* deleted, soft-deleted or converted, every id add has handed out is in
\* a local collection once initializeWithUser has returned.
C29_LocalRecordsSurvive ==
  (InitCall /\ Call.pc = "done" /\ Call.out = "returned") =>
    \A id \in 1..(nextId - 1) : \E K \in Kinds : id \in Ids(LocalList(K))

\* C24  Smart edit with re-classification: when smartEditItem has
\* classified the new content into another kind than the item's, the
\* source collection no longer holds the item and the target collection has
\* gained a record with the content of the classification and, for a task,
\* its dueDate, for a tagged note, its tags.
C24_SmartEditConverts ==
  ( /\ Call.op = "smartEdit"
    /\ Call.pc = "done"
    /\ Call.kind # Call.src
    /\ Call.cur # NoRecord )
  => LET want == classifyInput(Call.text)
         list == LocalList(Call.kind)
     IN /\ Call.id \notin Ids(LocalList(Call.src))
        /\ \E i \in DOMAIN list :
             /\ list[i].id \notin Call.prior
             /\ list[i].content = want.content
             /\ Call.kind = "todo" => list[i].dueDate = want.dueDate
             /\ Call.kind = "radiology" => list[i].tags = want.tags

\* C21  Local store tolerance of malformed data: for each kind, when the
\* persisted value is malformed (unparseable, no list, or a list with an
\* invalid entry), the list call and the mutating calls of the local store
\* complete without raising, and a mutating call leaves a well-formed list
\* without the invalid data.
C21_StorageTolerant ==
  ( /\ Call.op \in {"storage.get", "storage.add", "storage.delete"}
    /\ Call.pc = "done"
    /\ Call.flag )
  => /\ Call.out = "returned"
     /\ Call.op # "storage.get" => ~Malformed(Call.kind)

\* C26  Undo restores at most once: however the invocations of the undo
\* closures of an id interleave, no local collection ever holds two records
\* with the same id.
C26_UndoRestoresOnce ==
  \A K \in Kinds :
    \A i, j \in DOMAIN LocalList(K) :
      LocalList(K)[i].id = LocalList(K)[j].id => i = j

\* C30  At most one calendar event per task: when no call is in flight,
\* every live calendar event is the one the remote copy of a task refers
\* to, so no task has a second or an orphaned event.
C30_OneEventPerTask ==
  (\A t \in Slots : Free(t))
    => \A e \in events : \E d \in remote["todo"] : d.googleEventId = e
====
